---- MODULE Spec2Model ----
(***************************************************************************)
(* Atomic ingestor: the watcher (completion detection), the processor      *)
(* (worker pool, dedup transaction), the file mover, the dedup store and   *)
(* the manifest writer, together with the external writers that drop files *)
(* into the input directory, the clock and process crash/restart.          *)
(*                                                                         *)
(* Strings the code inspects (paths) are sequences of one-character        *)
(* strings, so that HasPrefix/HasSuffix/TrimSuffix/Base/Rel/Join are       *)
(* computed as the code computes them.  File contents are abstract values. *)
(***************************************************************************)
EXTENDS Integers, Sequences, FiniteSets, TLC

VARIABLES
    cfg,          \* config.Config: Method, StabilitySeconds, Concurrency, DryRun (frozen)
    env,          \* the environment: paths external writers use, contents, enabled faults (frozen)
    now,          \* the clock read by time.Now(), in seconds
    fs,           \* the file system: path -> content, defined on the files that exist
    fsOps,        \* number of operations the external writers have done
    events,       \* fsWatcher.Events: notifications in flight, oldest first (At: when the file changed)
    modification, \* Watcher.modification (sync.Map path -> time), or nil
    completed,    \* Watcher.completed (sync.Map path -> bool), or nil
    mainPc,       \* main goroutine: "wait" for the ticker, "run" inside ProcessFiles, "down" after a crash
    fileChan,     \* ProcessFiles: fileChan, the snapshot paths not yet received by a worker
    wpc,          \* per worker: position inside the worker loop / processFile / MoveFile
    wpath,        \* per worker: filePath
    whash,        \* per worker: hash
    wplaced,      \* per worker: MoveFile has put a file at dstPath in this processFile call
    records,      \* committed rows of the files table (durable)
    txrec,        \* per worker: row inserted inside its open transaction, NoRow otherwise
    manifest,     \* manifest lines appended so far, in order (durable)
    mfiles,       \* the manifest files: path -> the pieces written to it, in order (durable)
    wprocessedAt, \* per worker: processedAt
    restarts,     \* number of restarts of the process so far
    lastChange,   \* history: tracked path -> when its last create/write happened and when it was recorded
    okSeen,       \* history: event names whose create event was consumed since the target's last untrack
    outcome,      \* history: path -> how the last processFile call on it ended
    pendingAtCrash, \* history: paths ready, present and with no event in flight at the last crash, untouched since
    touched,      \* history: workers whose source was written or removed by others since their MoveFile read it
    handled       \* history: path of the current snapshot -> number of times a worker has received it

vars == <<cfg, env, now, fs, fsOps, events, modification, completed, mainPc, fileChan,
          wpc, wpath, whash, wplaced, records, txrec, manifest, mfiles, wprocessedAt, restarts,
          lastChange, okSeen, outcome, pendingAtCrash, touched, handled>>

manifestVars == <<manifest, mfiles, wprocessedAt>>

----------------------------------------------------------------------------
(* Bounds of the model *)

MaxTime == 3
MaxFsOps == 3
MaxQueue == 1
MaxRestarts == 1
MaxWorkers == 2

----------------------------------------------------------------------------
(* Values *)

NoPath == << >>
NoHash == "nohash"
NoRow == [sha256 |-> NoHash, name |-> NoPath, path |-> NoPath]

MethodStabilityWindow == "stability_window"
MethodSidecar == "sidecar"

Create == "CREATE"
Write == "WRITE"
Remove == "REMOVE"

EmptyMap == [x \in {} |-> 0]

Put(m, k, v) == [x \in (DOMAIN m) \cup {k} |-> IF x = k THEN v ELSE m[x]]

Del(m, k) == [x \in (DOMAIN m) \ {k} |-> m[x]]

\* a *sync.Map field: nil, or a map
NilMap == [nil |-> TRUE, m |-> EmptyMap]

NewMap == [nil |-> FALSE, m |-> EmptyMap]

Store(sm, k, v) == [sm EXCEPT !.m = Put(@, k, v)]

Delete(sm, k) == [sm EXCEPT !.m = Del(@, k)]

----------------------------------------------------------------------------
(* Strings *)

HasPrefix(s, p) == Len(p) <= Len(s) /\ SubSeq(s, 1, Len(p)) = p

HasSuffix(s, x) == Len(x) <= Len(s) /\ SubSeq(s, Len(s) - Len(x) + 1, Len(s)) = x

TrimSuffix(s, x) == IF HasSuffix(s, x) THEN SubSeq(s, 1, Len(s) - Len(x)) ELSE s

MaxOf(S) == CHOOSE i \in S : \A j \in S : j <= i

Base(path) ==
    LET seps == {i \in 1..Len(path) : path[i] = "/"}
    IN  IF seps = {} THEN path ELSE SubSeq(path, MaxOf(seps) + 1, Len(path))

Slash == <<"/">>

Join(dir, rel) == dir \o Slash \o rel

Rel(base, path) ==
    IF HasPrefix(path, base \o Slash)
    THEN SubSeq(path, Len(base) + 2, Len(path))
    ELSE <<".", ".">> \o Slash \o path

DotOk == <<".", "o", "k">>
DotTmp == <<".", "t", "m", "p">>

tempFileSuffixes ==
    { DotTmp,
      <<".", "p", "a", "r", "t">>,
      <<".", "s", "w", "p">>,
      <<".", "c", "r", "d", "o", "w", "n", "l", "o", "a", "d">>,
      <<".", "p", "a", "r", "t", "i", "a", "l">>,
      <<".", "d", "o", "w", "n", "l", "o", "a", "d">>,
      <<"~">> }

shouldIgnoreFile(path) ==
    LET name == Base(path)
    IN  \/ HasPrefix(name, <<".">>)
        \/ \E suffix \in tempFileSuffixes : HasSuffix(name, suffix)

----------------------------------------------------------------------------
(* Directories and the paths of the model *)

InputDir == <<"i">>
WarehouseDir == <<"w">>

In(name) == Join(InputDir, name)

FileA == In(<<"a">>)
FileB == In(<<"b">>)
FileHidden == In(<<".", "h">>)
FileTmp == In(<<"t">> \o DotTmp)

Ok(path) == path \o DotOk

Content1 == "c1"
Content2 == "c2"

\* what a path holds when it is a directory, not a regular file
Dir == "dir"

\* the bytes of a file of which only a part has been written so far
PartialOf(c) == CASE c = Content1 -> "c1~"
                  [] c = Content2 -> "c2~"

CompleteOf(p) == CASE p = "c1~" -> Content1
                   [] p = "c2~" -> Content2

Partials == {"c1~", "c2~"}

Sha256(c) == CASE c = Content1 -> "d1"
               [] c = Content2 -> "d2"
               [] OTHER -> "d0"

Digests(rows) == {r.sha256 : r \in rows}

Row(sha256, name, path) == [sha256 |-> sha256, name |-> name, path |-> path]

Entry(sha256, name, src, dst) ==
    [sha256 |-> sha256, name |-> name, source_path |-> src, dest_path |-> dst]

Workers == 1..MaxWorkers

----------------------------------------------------------------------------
(* Wall-clock time and the manifest files *)

Time(year, month, day, hour, minute, second) ==
    [year |-> year, month |-> month, day |-> day,
     hour |-> hour, minute |-> minute, second |-> second]

NoTime == Time(0, 0, 0, 0, 0, 0)

DaysIn(year, month) ==
    IF month = 2
    THEN (IF year % 4 = 0 /\ (year % 100 # 0 \/ year % 400 = 0) THEN 29 ELSE 28)
    ELSE IF month \in {4, 6, 9, 11} THEN 30 ELSE 31

\* the wall-clock time n seconds (less than a minute) after t
AddSeconds(t, n) ==
    LET second == t.second + n
        minute == t.minute + (second \div 60)
        hour == t.hour + (minute \div 60)
        day == t.day + (hour \div 24)
        dayOver == day > DaysIn(t.year, t.month)
        month == IF dayOver THEN t.month + 1 ELSE t.month
    IN  Time(IF month > 12 THEN t.year + 1 ELSE t.year,
             IF month > 12 THEN 1 ELSE month,
             IF dayOver THEN 1 ELSE day,
             hour % 24, minute % 60, second % 60)

Digits == <<"0", "1", "2", "3", "4", "5", "6", "7", "8", "9">>

Digit(n) == Digits[(n % 10) + 1]

\* t.Format("2006"): the year, four digits
Format2006(t) ==
    <<Digit(t.year \div 1000), Digit(t.year \div 100), Digit(t.year \div 10), Digit(t.year)>>

\* t.Format("01"): the month, two digits
Format01(t) == <<Digit(t.month \div 10), Digit(t.month)>>

\* t.Format("02"): the day of the month, two digits
Format02(t) == <<Digit(t.day \div 10), Digit(t.day)>>

\* t.Format("15"): the hour, two digits
Format15(t) == <<Digit(t.hour \div 10), Digit(t.hour)>>

ManifestsDir == <<"m">>

ManifestName ==
    <<"m", "a", "n", "i", "f", "e", "s", "t", ".", "j", "s", "o", "n", "l">>

\* a variant of the partition path without the hour
getManifestPathByDay(basePath, t) ==
    Join(Join(Join(Join(basePath, Format2006(t)), Format01(t)), Format02(t)), ManifestName)

\* Writer.getManifestPath: basePath/YYYY/MM/DD/HH/manifest.jsonl
getManifestPath(basePath, t) ==
    Join(Join(Join(Join(Join(basePath, Format2006(t)), Format01(t)), Format02(t)),
              Format15(t)),
         ManifestName)

\* what one write call has put into a manifest file: the whole JSON line of an
\* entry, or the first or the last part of it
Piece(entry, processedAt, part) ==
    [entry |-> entry, processed_at |-> processedAt, part |-> part]

\* the file at path after a write call on a descriptor opened with O_APPEND
AppendTo(files, path, piece) ==
    Put(files, path, (IF path \in DOMAIN files THEN files[path] ELSE << >>) \o <<piece>>)

----------------------------------------------------------------------------
(* Watcher *)

Has(event, op) == op \in event.Op

\* watcher.New: exactly one of the two maps is allocated, by method
NewModification(method) == IF method = MethodStabilityWindow THEN NewMap ELSE NilMap

NewCompleted(method) == IF method = MethodSidecar THEN NewMap ELSE NilMap

\* a variant of the sidecar branch that does not look at the kind of the event
eventLoopCompletedAnyOp(c, event) ==
    IF ~c.nil /\ HasSuffix(event.Name, DotOk)
    THEN Store(c, TrimSuffix(event.Name, DotOk), TRUE)
    ELSE c

\* eventLoop, the sidecar branch: the value of w.completed after one event
eventLoopCompleted(c, event) ==
    IF ~c.nil /\ HasSuffix(event.Name, DotOk) /\ Has(event, Create)
    THEN Store(c, TrimSuffix(event.Name, DotOk), TRUE)
    ELSE c

\* eventLoop, the rest of the body: the value of w.modification after one event
eventLoopModification(m, c, event, t) ==
    IF ~c.nil /\ HasSuffix(event.Name, DotOk) THEN m
    ELSE IF shouldIgnoreFile(event.Name) THEN m
    ELSE IF (Has(event, Create) \/ Has(event, Write)) /\ ~m.nil
         THEN Store(m, event.Name, t)
         ELSE m

\* a variant of the test that accepts a file exactly one window after its last change
StableAtWindowEnd(mtime, stabilitySeconds, t) == mtime + stabilitySeconds <= t

\* mtime.Add(stabilitySeconds * time.Second).Before(time.Now())
Stable(mtime, stabilitySeconds, t) == mtime + stabilitySeconds < t

GetFilesToProcessOf(m, c, stabilitySeconds, t) ==
    (IF ~m.nil
     THEN {name \in DOMAIN m.m : Stable(m.m[name], stabilitySeconds, t)}
     ELSE {})
    \cup
    (IF ~c.nil
     THEN {name \in DOMAIN c.m : c.m[name]}
     ELSE {})

GetFilesToProcess == GetFilesToProcessOf(modification, completed, cfg.StabilitySeconds, now)

\* a variant that forgets every path of the map
RemoveFromTrackingClearsAll(sm, path) == IF ~sm.nil THEN NewMap ELSE sm

\* Watcher.RemoveFromTracking on one of the two maps
RemoveFromTrackingOf(sm, path) == IF ~sm.nil THEN Delete(sm, path) ELSE sm

\* time.Now() as a wall-clock time
ClockNow == AddSeconds(env.start, now)

Tracked == (DOMAIN modification.m) \cup (DOMAIN completed.m)

Running == mainPc # "down"

\* a variant of the event loop that waits while a ProcessFiles run is under way
HandleEventWhenIdle ==
    /\ mainPc = "wait"
    /\ events # << >>
    /\ LET event == Head(events)
       IN  /\ events' = Tail(events)
           /\ completed' = eventLoopCompleted(completed, event)
           /\ modification' = eventLoopModification(modification, completed, event, now)
           /\ lastChange' = IF cfg.Method = MethodStabilityWindow
                               /\ (Has(event, Create) \/ Has(event, Write))
                            THEN Put(lastChange, event.Name,
                                     [occurred |-> event.At, recorded |-> now])
                            ELSE lastChange
           /\ okSeen' = IF cfg.Method = MethodSidecar /\ Has(event, Create)
                        THEN okSeen \cup {event.Name}
                        ELSE okSeen
    /\ UNCHANGED <<cfg, env, now, fs, fsOps, mainPc, fileChan, wpc, wpath, whash, wplaced,
                   records, txrec, manifestVars, restarts, outcome, pendingAtCrash, touched, handled>>

\* one iteration of eventLoop on the oldest notification
HandleEvent ==
    /\ Running
    /\ events # << >>
    /\ LET event == Head(events)
       IN  /\ events' = Tail(events)
           /\ completed' = eventLoopCompleted(completed, event)
           /\ modification' = eventLoopModification(modification, completed, event, now)
           /\ lastChange' = IF cfg.Method = MethodStabilityWindow
                               /\ (Has(event, Create) \/ Has(event, Write))
                            THEN Put(lastChange, event.Name,
                                     [occurred |-> event.At, recorded |-> now])
                            ELSE lastChange
           /\ okSeen' = IF cfg.Method = MethodSidecar /\ Has(event, Create)
                        THEN okSeen \cup {event.Name}
                        ELSE okSeen
    /\ UNCHANGED <<cfg, env, now, fs, fsOps, mainPc, fileChan, wpc, wpath, whash, wplaced,
                   records, txrec, manifestVars, restarts, outcome, pendingAtCrash, touched, handled>>

----------------------------------------------------------------------------
(* The environment: external writers and the clock *)

Notify(name, ops) ==
    IF Running /\ Len(events) < MaxQueue
    THEN Append(events, [Name |-> name, Op |-> ops,
                         At |-> IF cfg.Method = MethodStabilityWindow THEN now ELSE 0])
    ELSE events

IsDir(path) == path \in DOMAIN fs /\ fs[path] = Dir

\* positions of a worker inside MoveFile after its os.Stat(src)
MovePcs == {"mv_rename", "mv_copy", "mv_copying", "mv_rename_tmp", "mv_remove_src"}

\* the workers whose MoveFile is working on path
Touch(path) == touched \cup {w \in Workers : wpath[w] = path /\ wpc[w] \in MovePcs}

\* an upstream job creates or rewrites a file (or makes a directory) in the input directory
ExtWrite(path, c) ==
    /\ fsOps < MaxFsOps
    /\ Running => Len(events) < MaxQueue
    /\ path \in DOMAIN fs => fs[path] # Dir /\ c # Dir
    /\ fs' = Put(fs, path, c)
    /\ touched' = Touch(path)
    /\ fsOps' = fsOps + 1
    /\ events' = Notify(path, IF path \in DOMAIN fs THEN {Write} ELSE {Create})
    /\ pendingAtCrash' = pendingAtCrash \ {path, TrimSuffix(path, DotOk)}
    /\ UNCHANGED <<cfg, env, now, modification, completed, mainPc, fileChan, wpc, wpath, whash,
                   wplaced, records, txrec, manifestVars, restarts, lastChange, okSeen, outcome, handled>>

\* an upstream job removes a file from the input directory
ExtRemove(path) ==
    /\ fsOps < MaxFsOps
    /\ Running => Len(events) < MaxQueue
    /\ path \in DOMAIN fs
    /\ fs' = Del(fs, path)
    /\ touched' = Touch(path)
    /\ fsOps' = fsOps + 1
    /\ events' = Notify(path, {Remove})
    /\ pendingAtCrash' = pendingAtCrash \ {path, TrimSuffix(path, DotOk)}
    /\ UNCHANGED <<cfg, env, now, modification, completed, mainPc, fileChan, wpc, wpath, whash,
                   wplaced, records, txrec, manifestVars, restarts, lastChange, okSeen, outcome, handled>>

AdvanceTime ==
    /\ now < MaxTime
    /\ now' = now + 1
    /\ UNCHANGED <<cfg, env, fs, fsOps, events, modification, completed, mainPc, fileChan, wpc,
                   wpath, whash, wplaced, records, txrec, manifestVars, restarts, lastChange, okSeen,
                   outcome, pendingAtCrash, touched, handled>>

----------------------------------------------------------------------------
(* Processor: ProcessFiles and the worker pool *)

frozen == <<cfg, env>>
watcherVars == <<modification, completed>>
workerVars == <<wpc, wpath, whash, wplaced>>
storeVars == <<records, txrec>>
history == <<lastChange, okSeen, outcome, pendingAtCrash>>

Fault(f) == f \in env.faults

\* a variant that does not raise a width below one
WorkerCountUnclamped(concurrency, n) == IF concurrency > n THEN n ELSE concurrency

\* concurrency := cfg.Concurrency, clamped to [1, len(files)]
WorkerCount(concurrency, n) ==
    LET c1 == IF concurrency < 1 THEN 1 ELSE concurrency
    IN  IF c1 > n THEN n ELSE c1

\* a variant in which Range may visit a path more than once
OrdersWithRepeats(S) == [1..Cardinality(S) -> S]

\* the orders in which Range may have appended the ready paths to the slice
Orders(S) ==
    {q \in [1..Cardinality(S) -> S] : \A i, j \in 1..Cardinality(S) : i # j => q[i] # q[j]}

dstPathOf(filePath) == Join(WarehouseDir, Rel(InputDir, filePath))

tmpDstOf(dst) == dst \o DotTmp

\* a variant of the lookup that never finds a row
FileExistsNotFound(rows, sha256) == FALSE

\* Storage.FileExists: is there a row with this digest
FileExists(rows, sha256) == sha256 \in Digests(rows)

\* ProcessFiles up to close(fileChan): snapshot, start the workers, send every path
ProcessFiles ==
    /\ mainPc = "wait"
    /\ LET files == GetFilesToProcess
       IN  IF files = {}
           THEN UNCHANGED <<mainPc, fileChan, wpc, handled>>
           ELSE \E order \in Orders(files) :
                    /\ mainPc' = "run"
                    /\ fileChan' = order
                    /\ handled' = [path \in files |-> 0]
                    /\ wpc' = [w \in Workers |->
                                 IF w <= WorkerCount(cfg.Concurrency, Cardinality(files))
                                 THEN "recv" ELSE "off"]
    /\ UNCHANGED <<frozen, now, fs, fsOps, events, watcherVars, wpath, whash, wplaced,
                   storeVars, manifestVars, restarts, history, touched>>

\* a variant of ProcessFiles that returns without waiting for its workers
ProcessFilesReturnWithoutWait ==
    /\ mainPc = "run"
    /\ mainPc' = "wait"
    /\ wpc' = [w \in Workers |-> "off"]
    /\ handled' = EmptyMap
    /\ UNCHANGED <<frozen, now, fs, fsOps, events, watcherVars, fileChan, wpath, whash, wplaced,
                   storeVars, manifestVars, restarts, history, touched>>

\* wg.Wait() returns once every worker has left its range loop
ProcessFilesReturn ==
    /\ mainPc = "run"
    /\ \A w \in Workers : wpc[w] \in {"off", "exit"}
    /\ mainPc' = "wait"
    /\ wpc' = [w \in Workers |-> "off"]
    /\ handled' = EmptyMap
    /\ UNCHANGED <<frozen, now, fs, fsOps, events, watcherVars, fileChan, wpath, whash, wplaced,
                   storeVars, manifestVars, restarts, history, touched>>

\* for f := range fileChan
Recv(w) ==
    /\ wpc[w] = "recv"
    /\ IF fileChan # << >>
       THEN /\ wpath' = [wpath EXCEPT ![w] = Head(fileChan)]
            /\ fileChan' = Tail(fileChan)
            /\ handled' = [handled EXCEPT ![Head(fileChan)] = @ + 1]
            /\ wpc' = [wpc EXCEPT ![w] = "stat"]
       ELSE /\ wpc' = [wpc EXCEPT ![w] = "exit"]
            /\ UNCHANGED <<wpath, fileChan, handled>>
    /\ whash' = [whash EXCEPT ![w] = NoHash]
    /\ wplaced' = [wplaced EXCEPT ![w] = FALSE]
    /\ wprocessedAt' = [wprocessedAt EXCEPT ![w] = NoTime]
    /\ UNCHANGED <<frozen, now, fs, fsOps, events, watcherVars, mainPc,
                   storeVars, manifest, mfiles, restarts, history, touched>>

Goto(w, pc) == wpc' = [wpc EXCEPT ![w] = pc]

\* a variant of the rollback that keeps the inserted row
RollbackLeavesRow(w) == txrec' = txrec

\* the transaction function returned an error: the row it inserted is dropped
Rollback(w) == txrec' = [txrec EXCEPT ![w] = NoRow]

\* a variant of the stat failure that returns the error without untracking
StatWithoutUntrack(w) ==
    /\ wpc[w] = "stat"
    /\ Goto(w, IF wpath[w] \in DOMAIN fs THEN "hash" ELSE "fail_lookup")
    /\ UNCHANGED <<frozen, now, fs, fsOps, events, watcherVars, mainPc, fileChan,
                   wpath, whash, wplaced, storeVars, manifestVars, restarts, history, touched, handled>>

\* os.Stat(filePath)
Stat(w) ==
    /\ wpc[w] = "stat"
    /\ Goto(w, IF wpath[w] \in DOMAIN fs THEN "hash" ELSE "untrack_error")
    /\ UNCHANGED <<frozen, now, fs, fsOps, events, watcherVars, mainPc, fileChan,
                   wpath, whash, wplaced, storeVars, manifestVars, restarts, history, touched, handled>>

\* fileops.CalculateSHA256(filePath)
Hash(w) ==
    /\ wpc[w] = "hash"
    /\ IF wpath[w] \in DOMAIN fs /\ fs[wpath[w]] # Dir
       THEN /\ whash' = [whash EXCEPT ![w] = Sha256(fs[wpath[w]])]
            /\ Goto(w, "exists")
       ELSE /\ Goto(w, "untrack_error")
            /\ UNCHANGED whash
    /\ UNCHANGED <<frozen, now, fs, fsOps, events, watcherVars, mainPc, fileChan,
                   wpath, wplaced, storeVars, manifestVars, restarts, history, touched, handled>>

\* a variant in which a failed lookup untracks the path
ExistsErrorUntracks(w) ==
    /\ wpc[w] = "exists"
    /\ \/ /\ Fault("exists")
          /\ Goto(w, "untrack_error")
       \/ Goto(w, IF FileExists(records, whash[w]) THEN "untrack_duplicate"
                  ELSE IF cfg.DryRun THEN "untrack_dryrun"
                  ELSE "create")
    /\ wprocessedAt' = [wprocessedAt EXCEPT ![w] = IF wpc'[w] = "create" THEN ClockNow ELSE @]
    /\ UNCHANGED <<frozen, now, fs, fsOps, events, watcherVars, mainPc, fileChan,
                   wpath, whash, wplaced, storeVars, manifest, mfiles, restarts, history, touched, handled>>

\* a variant of processFile without the dry-run short cut
ExistsIgnoringDryRun(w) ==
    /\ wpc[w] = "exists"
    /\ \/ /\ Fault("exists")
          /\ Goto(w, "fail_lookup")
       \/ Goto(w, IF FileExists(records, whash[w]) THEN "untrack_duplicate" ELSE "create")
    /\ wprocessedAt' = [wprocessedAt EXCEPT ![w] = IF wpc'[w] = "create" THEN ClockNow ELSE @]
    /\ UNCHANGED <<frozen, now, fs, fsOps, events, watcherVars, mainPc, fileChan,
                   wpath, whash, wplaced, storeVars, manifest, mfiles, restarts, history, touched, handled>>

\* p.storage.FileExists(hash), the duplicate check, the dry-run check and
\* processedAt := time.Now()
Exists(w) ==
    /\ wpc[w] = "exists"
    /\ \/ /\ Fault("exists")
          /\ Goto(w, "fail_lookup")
       \/ Goto(w, IF FileExists(records, whash[w]) THEN "untrack_duplicate"
                  ELSE IF cfg.DryRun THEN "untrack_dryrun"
                  ELSE "create")
    /\ wprocessedAt' = [wprocessedAt EXCEPT ![w] = IF wpc'[w] = "create" THEN ClockNow ELSE @]
    /\ UNCHANGED <<frozen, now, fs, fsOps, events, watcherVars, mainPc, fileChan,
                   wpath, whash, wplaced, storeVars, manifest, mfiles, restarts, history, touched, handled>>

\* the store has one writer at a time: another open transaction holds the write lock
LockedByOther(w) == \E o \in Workers \ {w} : txrec[o] # NoRow

\* a variant of the insert on a table without the unique index on sha256
CreateFileWithoutUniqueIndex(w) ==
    /\ wpc[w] = "create"
    /\ IF LockedByOther(w)
       THEN /\ Fault("busy")
            /\ Goto(w, "fail_tx")
            /\ UNCHANGED txrec
       ELSE /\ txrec' = [txrec EXCEPT ![w] = Row(whash[w], Base(wpath[w]), wpath[w])]
            /\ Goto(w, "mkdir")
    /\ UNCHANGED <<frozen, now, fs, fsOps, events, watcherVars, mainPc, fileChan,
                   wpath, whash, wplaced, records, manifestVars, restarts, history, touched, handled>>

\* Transaction begins; txStorage.CreateFile(hash, info.Name(), filePath, info.Size())
CreateFile(w) ==
    /\ wpc[w] = "create"
    /\ IF LockedByOther(w)
       THEN /\ Fault("busy")
            /\ Goto(w, "fail_tx")
            /\ UNCHANGED txrec
       ELSE IF FileExists(records, whash[w])
       THEN /\ Goto(w, "fail_tx")
            /\ UNCHANGED txrec
       ELSE /\ txrec' = [txrec EXCEPT ![w] = Row(whash[w], Base(wpath[w]), wpath[w])]
            /\ Goto(w, "mkdir")
    /\ UNCHANGED <<frozen, now, fs, fsOps, events, watcherVars, mainPc, fileChan,
                   wpath, whash, wplaced, records, manifestVars, restarts, history, touched, handled>>

\* os.MkdirAll(dstDir, 0o755)
MkdirAll(w) ==
    /\ wpc[w] = "mkdir"
    /\ \/ /\ Fault("mkdir")
          /\ Rollback(w)
          /\ Goto(w, "fail_tx")
       \/ /\ Goto(w, "mv_stat")
          /\ UNCHANGED txrec
    /\ UNCHANGED <<frozen, now, fs, fsOps, events, watcherVars, mainPc, fileChan,
                   wpath, whash, wplaced, records, manifestVars, restarts, history, touched, handled>>

----------------------------------------------------------------------------
(* fileops.MoveFile(filePath, dstPath), step by step *)

\* os.Stat(src) at the top of MoveFile and the IsRegular test
MvStat(w) ==
    /\ wpc[w] = "mv_stat"
    /\ IF wpath[w] \in DOMAIN fs /\ fs[wpath[w]] # Dir
       THEN /\ Goto(w, "mv_rename")
            /\ UNCHANGED txrec
       ELSE /\ Rollback(w)
            /\ Goto(w, "fail_tx")
    /\ touched' = touched \ {w}
    /\ UNCHANGED <<frozen, now, fs, fsOps, events, watcherVars, mainPc, fileChan,
                   wpath, whash, wplaced, records, manifestVars, restarts, history, handled>>

\* a variant of the rename that leaves the source in place
MvRenameKeepsSource(w) ==
    LET src == wpath[w]
        dst == dstPathOf(src)
    IN  /\ wpc[w] = "mv_rename"
        /\ \/ /\ src \in DOMAIN fs
              /\ fs' = Put(fs, dst, fs[src])
              /\ wplaced' = [wplaced EXCEPT ![w] = TRUE]
              /\ touched' = touched \ {w}
              /\ Goto(w, "commit")
           \/ /\ src \notin DOMAIN fs \/ Fault("rename") \/ Fault("rename_other")
              /\ Goto(w, "mv_copy")
              /\ UNCHANGED <<fs, wplaced, touched>>
        /\ UNCHANGED <<frozen, now, fsOps, events, watcherVars, mainPc, fileChan,
                       wpath, whash, storeVars, manifestVars, restarts, history, handled>>

\* os.Rename(src, dst); any failure leads to the copy fallback: the source has
\* vanished, the two names are on different file systems ("rename"), or the
\* rename is refused for another reason ("rename_other")
MvRename(w) ==
    LET src == wpath[w]
        dst == dstPathOf(src)
    IN  /\ wpc[w] = "mv_rename"
        /\ \/ /\ src \in DOMAIN fs
              /\ fs' = Put(Del(fs, src), dst, fs[src])
              /\ wplaced' = [wplaced EXCEPT ![w] = TRUE]
              /\ touched' = touched \ {w}
              /\ Goto(w, "commit")
           \/ /\ src \notin DOMAIN fs \/ Fault("rename") \/ Fault("rename_other")
              /\ Goto(w, "mv_copy")
              /\ UNCHANGED <<fs, wplaced, touched>>
        /\ UNCHANGED <<frozen, now, fsOps, events, watcherVars, mainPc, fileChan,
                       wpath, whash, storeVars, manifestVars, restarts, history, handled>>

\* a variant of the copy that creates the file at the destination name itself
MvCopyOntoDestination(w) ==
    LET src == wpath[w]
        dst == dstPathOf(src)
    IN  /\ wpc[w] = "mv_copy"
        /\ \/ /\ src \in DOMAIN fs /\ fs[src] # Dir
              /\ fs' = Put(fs, dst, PartialOf(fs[src]))
              /\ Goto(w, "mv_copying")
              /\ UNCHANGED <<txrec, touched>>
           \/ /\ src \notin DOMAIN fs \/ IsDir(src) \/ Fault("copy")
              /\ fs' = Del(fs, dst)
              /\ Rollback(w)
              /\ touched' = touched \ {w}
              /\ Goto(w, "fail_tx")
        /\ UNCHANGED <<frozen, now, fsOps, events, watcherVars, mainPc, fileChan,
                       wpath, whash, wplaced, records, manifestVars, restarts, history, handled>>

\* copyFileContents(src, tmpDst) up to its first bytes: os.Open(src), os.Create(tmpDst);
\* on an error, os.Remove(tmpDst)
MvCopy(w) ==
    LET src == wpath[w]
        tmpDst == tmpDstOf(dstPathOf(src))
    IN  /\ wpc[w] = "mv_copy"
        /\ \/ /\ src \in DOMAIN fs /\ fs[src] # Dir
              /\ fs' = Put(fs, tmpDst, PartialOf(fs[src]))
              /\ Goto(w, "mv_copying")
              /\ UNCHANGED <<txrec, touched>>
           \/ /\ src \notin DOMAIN fs \/ IsDir(src) \/ Fault("copy")
              /\ fs' = Del(fs, tmpDst)
              /\ Rollback(w)
              /\ touched' = touched \ {w}
              /\ Goto(w, "fail_tx")
        /\ UNCHANGED <<frozen, now, fsOps, events, watcherVars, mainPc, fileChan,
                       wpath, whash, wplaced, records, manifestVars, restarts, history, handled>>

\* what io.Copy ends up writing: the bytes the source had when it was opened,
\* or those a writer has put into it since
Copied(src, tmpDst) ==
    {CompleteOf(fs[tmpDst])} \cup (IF src \in DOMAIN fs /\ fs[src] # Dir THEN {fs[src]} ELSE {})

\* a variant of the copy whose failure leaves the temporary file behind
MvCopyingKeepsTmp(w) ==
    LET src == wpath[w]
        tmpDst == tmpDstOf(dstPathOf(src))
    IN  /\ wpc[w] = "mv_copying"
        /\ \/ /\ tmpDst \in DOMAIN fs /\ fs[tmpDst] \in Partials
              /\ \E c \in Copied(src, tmpDst) : fs' = Put(fs, tmpDst, c)
              /\ Goto(w, "mv_rename_tmp")
              /\ UNCHANGED <<txrec, touched>>
           \/ /\ tmpDst \notin DOMAIN fs \/ Fault("copy")
              /\ fs' = fs
              /\ Rollback(w)
              /\ touched' = touched \ {w}
              /\ Goto(w, "fail_tx")
        /\ UNCHANGED <<frozen, now, fsOps, events, watcherVars, mainPc, fileChan,
                       wpath, whash, wplaced, records, manifestVars, restarts, history, handled>>

\* the rest of copyFileContents: io.Copy, Sync, Close; on an error, os.Remove(tmpDst)
MvCopying(w) ==
    LET src == wpath[w]
        tmpDst == tmpDstOf(dstPathOf(src))
    IN  /\ wpc[w] = "mv_copying"
        /\ \/ /\ tmpDst \in DOMAIN fs /\ fs[tmpDst] \in Partials
              /\ \E c \in Copied(src, tmpDst) : fs' = Put(fs, tmpDst, c)
              /\ Goto(w, "mv_rename_tmp")
              /\ UNCHANGED <<txrec, touched>>
           \/ /\ tmpDst \notin DOMAIN fs \/ Fault("copy")
              /\ fs' = Del(fs, tmpDst)
              /\ Rollback(w)
              /\ touched' = touched \ {w}
              /\ Goto(w, "fail_tx")
        /\ UNCHANGED <<frozen, now, fsOps, events, watcherVars, mainPc, fileChan,
                       wpath, whash, wplaced, records, manifestVars, restarts, history, handled>>

\* os.Rename(tmpDst, dst), and os.Remove(tmpDst) when it fails
MvRenameTmp(w) ==
    LET dst == dstPathOf(wpath[w])
        tmpDst == tmpDstOf(dst)
    IN  /\ wpc[w] = "mv_rename_tmp"
        /\ \/ /\ tmpDst \in DOMAIN fs
              /\ fs' = Put(Del(fs, tmpDst), dst, fs[tmpDst])
              /\ wplaced' = [wplaced EXCEPT ![w] = TRUE]
              /\ Goto(w, "mv_remove_src")
              /\ UNCHANGED <<txrec, touched>>
           \/ /\ tmpDst \notin DOMAIN fs \/ Fault("rename_tmp")
              /\ fs' = Del(fs, tmpDst)
              /\ Rollback(w)
              /\ touched' = touched \ {w}
              /\ Goto(w, "fail_tx")
              /\ UNCHANGED wplaced
        /\ UNCHANGED <<frozen, now, fsOps, events, watcherVars, mainPc, fileChan,
                       wpath, whash, records, manifestVars, restarts, history, handled>>

\* os.Remove(src) after the copy; its failure is returned as an error
MvRemoveSrc(w) ==
    LET src == wpath[w]
    IN  /\ wpc[w] = "mv_remove_src"
        /\ \/ /\ src \in DOMAIN fs
              /\ fs' = Del(fs, src)
              /\ Goto(w, "commit")
              /\ UNCHANGED txrec
           \/ /\ src \notin DOMAIN fs \/ Fault("remove_src")
              /\ Rollback(w)
              /\ Goto(w, "fail_tx")
              /\ UNCHANGED fs
        /\ touched' = touched \ {w}
        /\ UNCHANGED <<frozen, now, fsOps, events, watcherVars, mainPc, fileChan,
                       wpath, whash, wplaced, records, manifestVars, restarts, history, handled>>

----------------------------------------------------------------------------
(* processFile after the transaction function has returned nil *)

\* a variant in which the row is lost although processFile goes on
CommitDropsRow(w) ==
    /\ wpc[w] = "commit"
    /\ records' = records
    /\ txrec' = [txrec EXCEPT ![w] = NoRow]
    /\ Goto(w, "manifest")
    /\ UNCHANGED <<frozen, now, fs, fsOps, events, watcherVars, mainPc, fileChan,
                   wpath, whash, wplaced, manifestVars, restarts, history, touched, handled>>

\* a variant in which the new row replaces the rows of the table
CommitReplacesRows(w) ==
    /\ wpc[w] = "commit"
    /\ records' = {txrec[w]}
    /\ txrec' = [txrec EXCEPT ![w] = NoRow]
    /\ Goto(w, "manifest")
    /\ UNCHANGED <<frozen, now, fs, fsOps, events, watcherVars, mainPc, fileChan,
                   wpath, whash, wplaced, manifestVars, restarts, history, touched, handled>>

\* the transaction function returned nil: the transaction commits
Commit(w) ==
    /\ wpc[w] = "commit"
    /\ records' = records \cup {txrec[w]}
    /\ txrec' = [txrec EXCEPT ![w] = NoRow]
    /\ Goto(w, "manifest")
    /\ UNCHANGED <<frozen, now, fs, fsOps, events, watcherVars, mainPc, fileChan,
                   wpath, whash, wplaced, manifestVars, restarts, history, touched, handled>>

\* the manifest entry processFile builds for its file
manifestEntry(w) == Entry(whash[w], Base(wpath[w]), wpath[w], dstPathOf(wpath[w]))

\* a variant in which a failed append makes processFile return the error
ManifestAppendFatal(w) ==
    LET manifestPath == getManifestPath(ManifestsDir, wprocessedAt[w])
    IN  /\ wpc[w] \in {"manifest", "manifest_rest"}
        /\ \/ /\ mfiles' = AppendTo(mfiles, manifestPath,
                                    Piece(manifestEntry(w), wprocessedAt[w],
                                          IF wpc[w] = "manifest" THEN "line" ELSE "tail"))
              /\ manifest' = Append(manifest, manifestEntry(w))
              /\ Goto(w, "untrack_ok")
           \/ /\ wpc[w] = "manifest"
              /\ Fault("manifest_write")
              /\ mfiles' = AppendTo(mfiles, manifestPath,
                                    Piece(manifestEntry(w), wprocessedAt[w], "head"))
              /\ Goto(w, "manifest_rest")
              /\ UNCHANGED manifest
           \/ /\ Fault("manifest") \/ wpc[w] = "manifest_rest"
              /\ UNCHANGED <<manifest, mfiles>>
              /\ Goto(w, "fail_lookup")
        /\ UNCHANGED <<frozen, now, fs, fsOps, events, watcherVars, mainPc, fileChan,
                       wpath, whash, wplaced, wprocessedAt, storeVars, restarts, history,
                       touched, handled>>

\* p.manifest.Append(manifestEntry), one write call at a time; an error is
\* logged and ignored.  MkdirAll, OpenFile (O_APPEND|O_CREATE) and Marshal
\* come with the first call of file.Write, which goes on with the rest of the
\* line when a call has taken only a part of it.
ManifestAppend(w) ==
    LET manifestPath == getManifestPath(ManifestsDir, wprocessedAt[w])
    IN  /\ wpc[w] \in {"manifest", "manifest_rest"}
        /\ \/ /\ mfiles' = AppendTo(mfiles, manifestPath,
                                    Piece(manifestEntry(w), wprocessedAt[w],
                                          IF wpc[w] = "manifest" THEN "line" ELSE "tail"))
              /\ manifest' = Append(manifest, manifestEntry(w))
              /\ Goto(w, "untrack_ok")
           \/ /\ wpc[w] = "manifest"
              /\ Fault("manifest_write")
              /\ mfiles' = AppendTo(mfiles, manifestPath,
                                    Piece(manifestEntry(w), wprocessedAt[w], "head"))
              /\ Goto(w, "manifest_rest")
              /\ UNCHANGED manifest
           \/ /\ Fault("manifest") \/ wpc[w] = "manifest_rest"
              /\ UNCHANGED <<manifest, mfiles>>
              /\ Goto(w, "untrack_ok")
        /\ UNCHANGED <<frozen, now, fs, fsOps, events, watcherVars, mainPc, fileChan,
                       wpath, whash, wplaced, wprocessedAt, storeVars, restarts, history,
                       touched, handled>>

UntrackPcs == {"untrack_error", "untrack_duplicate", "untrack_dryrun", "untrack_ok"}

FailPcs == {"fail_lookup", "fail_tx"}

OutcomeOf(pc) == CASE pc = "untrack_error" -> "error"
                   [] pc = "untrack_duplicate" -> "duplicate"
                   [] pc = "untrack_dryrun" -> "dryrun"
                   [] pc = "untrack_ok" -> "moved"
                   [] OTHER -> "failed"

\* a variant of the return that leaves the path in the watcher's maps
UntrackKeepsTracking(w) ==
    /\ wpc[w] \in UntrackPcs
    /\ outcome' = Put(outcome, wpath[w], OutcomeOf(wpc[w]))
    /\ Goto(w, "recv")
    /\ UNCHANGED <<frozen, now, fs, fsOps, events, watcherVars, mainPc, fileChan,
                   wpath, whash, wplaced, storeVars, manifestVars, restarts, lastChange, okSeen,
                   pendingAtCrash, touched, handled>>

\* p.watcher.RemoveFromTracking(filePath) and the return that follows it
Untrack(w) ==
    /\ wpc[w] \in UntrackPcs
    /\ modification' = RemoveFromTrackingOf(modification, wpath[w])
    /\ completed' = RemoveFromTrackingOf(completed, wpath[w])
    /\ okSeen' = okSeen \ {Ok(wpath[w])}
    /\ lastChange' = Del(lastChange, wpath[w])
    /\ outcome' = Put(outcome, wpath[w], OutcomeOf(wpc[w]))
    /\ Goto(w, "recv")
    /\ UNCHANGED <<frozen, now, fs, fsOps, events, mainPc, fileChan,
                   wpath, whash, wplaced, storeVars, manifestVars, restarts, pendingAtCrash, touched, handled>>

\* a variant in which a failed processFile call also untracks the path
FailUntracks(w) ==
    /\ wpc[w] \in FailPcs
    /\ modification' = RemoveFromTrackingOf(modification, wpath[w])
    /\ completed' = RemoveFromTrackingOf(completed, wpath[w])
    /\ outcome' = Put(outcome, wpath[w], OutcomeOf(wpc[w]))
    /\ Goto(w, "recv")
    /\ UNCHANGED <<frozen, now, fs, fsOps, events, mainPc, fileChan,
                   wpath, whash, wplaced, storeVars, manifestVars, restarts, lastChange, okSeen,
                   pendingAtCrash, touched, handled>>

\* processFile returns an error without untracking; the worker logs it
Fail(w) ==
    /\ wpc[w] \in FailPcs
    /\ outcome' = Put(outcome, wpath[w], OutcomeOf(wpc[w]))
    /\ Goto(w, "recv")
    /\ UNCHANGED <<frozen, now, fs, fsOps, events, watcherVars, mainPc, fileChan,
                   wpath, whash, wplaced, storeVars, manifestVars, restarts, lastChange, okSeen,
                   pendingAtCrash, touched, handled>>

----------------------------------------------------------------------------
(* Process crash and restart *)

\* the process dies: everything in memory and every open transaction is lost.
\* A crash, a kill, or SIGTERM/SIGINT: main installs no signal handler, so the
\* runtime ends the process wherever its goroutines are.
Crash ==
    /\ Running
    /\ restarts < MaxRestarts
    /\ mainPc' = "down"
    /\ events' = << >>
    /\ modification' = NilMap
    /\ completed' = NilMap
    /\ fileChan' = << >>
    /\ wpc' = [w \in Workers |-> "off"]
    /\ wpath' = [w \in Workers |-> NoPath]
    /\ whash' = [w \in Workers |-> NoHash]
    /\ wplaced' = [w \in Workers |-> FALSE]
    /\ txrec' = [w \in Workers |-> NoRow]
    /\ lastChange' = EmptyMap
    /\ okSeen' = {}
    /\ outcome' = EmptyMap
    /\ touched' = {}
    /\ handled' = EmptyMap
    /\ pendingAtCrash' = {p \in GetFilesToProcess :
                              /\ p \in DOMAIN fs
                              /\ \A i \in 1..Len(events) : events[i].Name \notin {p, Ok(p)}}
    /\ wprocessedAt' = [w \in Workers |-> NoTime]
    /\ UNCHANGED <<frozen, now, fs, fsOps, records, manifest, mfiles, restarts>>

\* a variant of the restart that opens a new, empty store
RestartOnEmptyStore ==
    /\ mainPc = "down"
    /\ mainPc' = "wait"
    /\ restarts' = restarts + 1
    /\ modification' = NewModification(cfg.Method)
    /\ completed' = NewCompleted(cfg.Method)
    /\ records' = {}
    /\ UNCHANGED <<frozen, now, fs, fsOps, events, fileChan, workerVars, txrec, manifestVars,
                   history, touched, handled>>

\* main again: open the store at the same path, watcher.New, Start, ticker
Restart ==
    /\ mainPc = "down"
    /\ mainPc' = "wait"
    /\ restarts' = restarts + 1
    /\ modification' = NewModification(cfg.Method)
    /\ completed' = NewCompleted(cfg.Method)
    /\ UNCHANGED <<frozen, now, fs, fsOps, events, fileChan, workerVars, storeVars, manifestVars,
                   history, touched, handled>>

----------------------------------------------------------------------------
(* Specifications *)

Faults == {"exists", "busy", "mkdir", "rename", "copy", "rename_tmp", "remove_src", "manifest"}

Config(method, concurrency, dryRun) ==
    [Method |-> method, StabilitySeconds |-> 1, Concurrency |-> concurrency, DryRun |-> dryRun]

\* a start of the process well inside an hour
MidHour == Time(2024, 3, 15, 14, 30, 0)

EnvironmentAt(paths, contents, faults, start) ==
    [paths |-> paths, contents |-> contents, faults |-> faults, start |-> start]

Environment(paths, contents, faults) == EnvironmentAt(paths, contents, faults, MidHour)

\* the state after main has opened the store (holding rows) and started the
\* watcher, with the files that earlier runs have left
InitFiles(c, e, rows, files) ==
    /\ cfg = c
    /\ env = e
    /\ now = 0
    /\ fs = files
    /\ fsOps = 0
    /\ events = << >>
    /\ modification = NewModification(c.Method)
    /\ completed = NewCompleted(c.Method)
    /\ mainPc = "wait"
    /\ fileChan = << >>
    /\ wpc = [w \in Workers |-> "off"]
    /\ wpath = [w \in Workers |-> NoPath]
    /\ whash = [w \in Workers |-> NoHash]
    /\ wplaced = [w \in Workers |-> FALSE]
    /\ records = rows
    /\ txrec = [w \in Workers |-> NoRow]
    /\ manifest = << >>
    /\ mfiles = EmptyMap
    /\ wprocessedAt = [w \in Workers |-> NoTime]
    /\ restarts = 0
    /\ lastChange = EmptyMap
    /\ okSeen = {}
    /\ outcome = EmptyMap
    /\ pendingAtCrash = {}
    /\ touched = {}
    /\ handled = EmptyMap

\* the same with no file in the input directory and the warehouse
InitStore(c, e, rows) == InitFiles(c, e, rows, EmptyMap)

\* the same on a store that has no row yet
InitWith(c, e) == InitStore(c, e, {})

External ==
    \/ \E path \in env.paths, c \in env.contents : ExtWrite(path, c)
    \/ \E path \in env.paths : ExtRemove(path)
    \/ AdvanceTime

WorkerStep(w) ==
    \/ Recv(w)
    \/ Stat(w)
    \/ Hash(w)
    \/ Exists(w)
    \/ CreateFile(w)
    \/ MkdirAll(w)
    \/ MvStat(w)
    \/ MvRename(w)
    \/ MvCopy(w)
    \/ MvCopying(w)
    \/ MvRenameTmp(w)
    \/ MvRemoveSrc(w)
    \/ Commit(w)
    \/ ManifestAppend(w)
    \/ Untrack(w)
    \/ Fail(w)

Program ==
    \/ HandleEvent
    \/ ProcessFiles
    \/ ProcessFilesReturn
    \/ \E w \in Workers : WorkerStep(w)

Next ==
    \/ External
    \/ Program
    \/ Crash
    \/ Restart

Methods == {MethodStabilityWindow, MethodSidecar}

\* two data files, and their markers when the policy is sidecar
DataPaths(method) ==
    IF method = MethodSidecar THEN {FileA, FileB, Ok(FileA), Ok(FileB)} ELSE {FileA, FileB}

\* names the path filter and the marker handling have to tell apart
FilterPaths ==
    {FileA, Ok(FileA), Ok(Ok(FileA)), FileHidden, Ok(FileHidden), FileTmp, Ok(FileTmp)}

\* one worker, every I/O step may fail
Init ==
    \E method \in Methods :
        InitWith(Config(method, 1, FALSE),
                 Environment(DataPaths(method), {Content1, Content2}, Faults))

Spec == Init /\ [][Next]_vars

\* two workers, input and warehouse possibly on different file systems
InitPool ==
    \E method \in Methods :
        InitWith(Config(method, 2, FALSE),
                 Environment(DataPaths(method), {Content1, Content2}, {"rename"}))

SpecPool == InitPool /\ [][Next]_vars

\* hidden, temporary and marker names in the input directory
InitFilter ==
    \E method \in Methods :
        InitWith(Config(method, 1, FALSE),
                 Environment(FilterPaths, {Content1}, {"rename"}))

SpecFilter == InitFilter /\ [][Next]_vars

\* one data file that may be replaced by a directory; every step of the move may fail
InitMove ==
    \E method \in Methods, renameFault \in {"rename", "rename_other"} :
        InitWith(Config(method, 1, FALSE),
                 Environment(IF method = MethodSidecar THEN {FileA, Ok(FileA)} ELSE {FileA},
                             {Content1, Dir},
                             {renameFault, "copy", "rename_tmp", "remove_src"}))

SpecMove == InitMove /\ [][Next]_vars

\* a store that may already hold the row of an earlier run; dry-run on or off
InitDryRun ==
    \E dryRun \in BOOLEAN, rows \in {{}, {Row(Sha256(Content1), <<"z">>, In(<<"z">>))}} :
        InitStore(Config(MethodStabilityWindow, 1, dryRun),
                  Environment({FileA, FileB}, {Content1, Content2}, {"rename"}),
                  rows)

SpecDryRun == InitDryRun /\ [][Next]_vars

\* widths below one, within and above the number of ready paths
Widths == 0..(MaxWorkers + 1)

InitDispatch ==
    \E concurrency \in Widths :
        InitWith(Config(MethodStabilityWindow, concurrency, FALSE),
                 Environment({FileA, FileB}, {Content1}, {"rename"}))

SpecDispatch == InitDispatch /\ [][Next]_vars

\* one data file and its marker; the goroutines, the ticker, the clock and the
\* restart of a crashed process are scheduled fairly, the external writers are not
InitLive ==
    \E method \in Methods :
        InitWith(Config(method, 1, FALSE),
                 Environment(IF method = MethodSidecar THEN {FileA, Ok(FileA)} ELSE {FileA},
                             {Content1}, {"rename"}))

Fairness ==
    /\ WF_vars(HandleEvent)
    /\ WF_vars(ProcessFiles)
    /\ WF_vars(ProcessFilesReturn)
    /\ \A w \in Workers : WF_vars(WorkerStep(w))
    /\ WF_vars(AdvanceTime)
    /\ WF_vars(Restart)

LiveSpec == InitLive /\ [][Next]_vars /\ Fairness

\* two data files with the same content, scheduled as in LiveSpec
InitResend ==
    InitWith(Config(MethodStabilityWindow, 1, FALSE),
             Environment({FileA, FileB}, {Content1}, {"rename"}))

LiveResend == InitResend /\ [][Next]_vars /\ Fairness

\* two workers and two data files with the same content, scheduled as in LiveSpec
InitRace ==
    InitWith(Config(MethodStabilityWindow, 2, FALSE),
             Environment({FileA, FileB}, {Content1}, {"rename"}))

LiveRace == InitRace /\ [][Next]_vars /\ Fairness

\* every width of the pool, scheduled as in LiveSpec
LiveDispatch == InitDispatch /\ [][Next]_vars /\ Fairness

\* a start of the process three seconds before the hour ends
BeforeHour == Time(2024, 3, 15, 14, 59, 57)

\* the same before the year ends, and before the 29th of February
Starts == {BeforeHour, Time(2024, 12, 31, 23, 59, 57), Time(2024, 2, 28, 23, 59, 57)}

\* two workers appending to the manifest around the end of an hour; a write
\* call may take only a part of a line
InitManifest ==
    InitWith(Config(MethodStabilityWindow, 2, FALSE),
             EnvironmentAt({FileA, FileB}, {Content1, Content2},
                           {"manifest_write"}, BeforeHour))

SpecManifest == InitManifest /\ [][Next]_vars

\* one worker appending to the manifest around the end of an hour, a day, a
\* month and a year
InitPartition ==
    \E start \in Starts :
        InitWith(Config(MethodStabilityWindow, 1, FALSE),
                 EnvironmentAt({FileA, FileB}, {Content1, Content2}, {"rename"}, start))

SpecPartition == InitPartition /\ [][Next]_vars

\* an earlier run has ingested i/a with the first content; upstream then
\* delivers a file of the same name again
InitReingest ==
    \E method \in Methods :
        InitFiles(Config(method, 1, FALSE),
                  Environment(IF method = MethodSidecar THEN {FileA, Ok(FileA)} ELSE {FileA},
                              {Content1, Content2}, {"rename"}),
                  {Row(Sha256(Content1), Base(FileA), FileA)},
                  Put(EmptyMap, dstPathOf(FileA), Content1))

SpecReingest == InitReingest /\ [][Next]_vars

----------------------------------------------------------------------------
(* Properties *)

\* C3: in stability mode a path is in the ready set only if strictly more than
\* the configured window has elapsed since the last create or write event the
\* event loop recorded for it; every such event restarts the window.
StabilityWindowPolicy ==
    cfg.Method = MethodStabilityWindow =>
        \A path \in GetFilesToProcess :
            /\ path \in DOMAIN lastChange
            /\ now - lastChange[path].recorded > cfg.StabilitySeconds

\* a path that changed again after its creation is ready, a full window later
StabilityWindowWitness ==
    /\ cfg.Method = MethodStabilityWindow
    /\ \E path \in GetFilesToProcess :
           /\ path \in DOMAIN fs
           /\ lastChange[path].recorded > 0

\* C4: in sidecar mode a path is in the ready set exactly when a create event
\* for its .ok marker has been consumed since the path was last untracked;
\* events on the path itself and the passing of time never make it ready.
SidecarPolicy ==
    cfg.Method = MethodSidecar =>
        /\ \A path \in GetFilesToProcess : Ok(path) \in okSeen
        /\ \A name \in okSeen :
               HasSuffix(name, DotOk) => TrimSuffix(name, DotOk) \in GetFilesToProcess

\* a data file is ready after its marker was created; another one that was
\* written, with time passed, is not
SidecarWitness ==
    /\ cfg.Method = MethodSidecar
    /\ now > cfg.StabilitySeconds
    /\ FileA \in GetFilesToProcess
    /\ FileB \in DOMAIN fs
    /\ FileB \in okSeen
    /\ FileB \notin GetFilesToProcess

\* C5: the ready set never contains a path whose base name is hidden or has a
\* temporary suffix, under either policy.
PathFilterInvariant ==
    \A path \in GetFilesToProcess :
        LET name == Base(path)
        IN  /\ ~HasPrefix(name, <<".">>)
            /\ \A suffix \in tempFileSuffixes : ~HasSuffix(name, suffix)

\* C6: no path ending in .ok is ever tracked or ready, under either policy.
MarkersNeverCandidates ==
    \A path \in Tracked \cup GetFilesToProcess : ~HasSuffix(path, DotOk)

InWarehouse(path) == HasPrefix(path, WarehouseDir \o Slash)

\* the files at a final destination name (not the temporary name of the copy path)
Relocated == {path \in DOMAIN fs : InWarehouse(path) /\ ~HasSuffix(path, DotTmp)}

AllContents == {Content1, Content2}

AllDigests == {Sha256(c) : c \in AllContents}

\* C1: at most one FileRecord per digest and at most one relocated file per
\* content, whatever the interleaving of events, ticks and workers (no crash).
ExactlyOnceByContent ==
    restarts = 0 /\ mainPc # "down" =>
        /\ \A d \in AllDigests : Cardinality({r \in records : r.sha256 = d}) <= 1
        /\ \A c \in AllContents : Cardinality({path \in Relocated : fs[path] = c}) <= 1

\* C2: when the transaction of processFile has ended, it either succeeded with
\* the record committed and the file placed at the destination, or failed with
\* no record committed by it and no file placed at the destination by it.
TransactionPairsWithRelocation ==
    \A w \in Workers :
        /\ wpc[w] = "manifest" =>
               /\ Row(whash[w], Base(wpath[w]), wpath[w]) \in records
               /\ wplaced[w]
        /\ wpc[w] = "fail_tx" =>
               /\ txrec[w] = NoRow
               /\ ~wplaced[w]

\* C7: in stability mode no worker hashes or moves a file that was created or
\* written, with the event recorded, less than one window earlier.
NoMidWriteIngestion ==
    [][\A w \in Workers :
          (/\ cfg.Method = MethodStabilityWindow
           /\ wpath[w] \in DOMAIN lastChange
           /\ \/ wpc[w] = "hash" /\ wpc'[w] = "exists"
              \/ ~wplaced[w] /\ wplaced'[w])
          => now - lastChange[wpath[w]].occurred > cfg.StabilitySeconds]_vars

\* C8: after a crash and restart, every content present at a destination name
\* has a committed FileRecord.
CrashWithoutDuplicates ==
    restarts > 0 /\ mainPc = "wait" =>
        \A path \in Relocated : FileExists(records, Sha256(fs[path]))

\* C9: a file that was ready and present in the input directory when the
\* process crashed is, after the restart and with no further file-system event
\* on it, eventually relocated or skipped as a duplicate.
CrashWithoutLostFiles ==
    \A path \in {FileA, FileB} :
        (path \in pendingAtCrash)
            ~> (\/ path \notin pendingAtCrash
                \/ path \in DOMAIN outcome /\ outcome[path] \in {"moved", "duplicate"})

\* C10: closing and reopening the store leaves the answer of FileExists
\* unchanged for every digest: true for those that had a committed record,
\* false for the others (rows of an open transaction included).
RestartPersistence ==
    [][(mainPc' = "down" \/ mainPc = "down") =>
          \A d \in AllDigests : FileExists(records', d) = FileExists(records, d)]_vars

\* the process has restarted on a store that holds one digest and lacks another
RestartPersistenceWitness ==
    /\ restarts > 0
    /\ mainPc = "wait"
    /\ \E d \in AllDigests : FileExists(records, d)
    /\ \E d \in AllDigests : ~FileExists(records, d)

\* the step is not the death of the process, and worker w has left position pc
Leaves(w, pc) == wpc[w] = pc /\ wpc'[w] # pc /\ mainPc' # "down"

\* C11: an insert for a digest that already has a row fails and leaves the rows
\* as they were, also when the worker had seen FileExists = false before the
\* other worker inserted; so the table never holds two rows with one digest,
\* and no two open transactions hold a row for the same digest.
StoreEnforcedUniqueness ==
    [][/\ \A w \in Workers :
              (Leaves(w, "create") /\ whash[w] \in Digests(records))
              => /\ wpc'[w] = "fail_tx"
                 /\ records' = records
                 /\ txrec'[w] = NoRow
       /\ \A d \in AllDigests : Cardinality({r \in records' : r.sha256 = d}) <= 1
       /\ \A w1, w2 \in Workers :
              (w1 # w2 /\ txrec'[w1] # NoRow) => txrec'[w2].sha256 # txrec'[w1].sha256]_vars

\* a worker's insert has failed on the digest that the other worker, which
\* took the other path of the snapshot, has just committed
StoreEnforcedUniquenessWitness ==
    \E w \in Workers, o \in Workers :
        /\ w # o
        /\ wpc[w] = "fail_tx"
        /\ ~wplaced[w]
        /\ wpath[w] \in DOMAIN fs
        /\ wpc[o] \in {"manifest", "untrack_ok"}
        /\ whash[o] = whash[w]
        /\ Row(whash[o], Base(wpath[o]), wpath[o]) \in records
        /\ Cardinality({r \in records : r.sha256 = whash[w]}) = 1

\* the final destination names in the warehouse
IsFinalName(path) == InWarehouse(path) /\ ~HasSuffix(path, DotTmp)

\* C12: partially copied bytes are only ever visible under the temporary name;
\* a final destination name changes only by a rename, from its previous
\* content (or absence) to the complete content of the source or of the
\* finished temporary file, at every step and on every failure outcome.
NoPartialFileAtDestination ==
    [][\A path \in DOMAIN fs' :
          /\ fs'[path] \in Partials => InWarehouse(path) /\ HasSuffix(path, DotTmp)
          /\ (IsFinalName(path) /\ (path \notin DOMAIN fs \/ fs[path] # fs'[path]))
             => \E w \in Workers :
                    /\ path = dstPathOf(wpath[w])
                    /\ fs'[path] \notin Partials
                    /\ \/ /\ wpc[w] = "mv_rename"
                          /\ wpath[w] \in DOMAIN fs
                          /\ fs'[path] = fs[wpath[w]]
                       \/ /\ wpc[w] = "mv_rename_tmp"
                          /\ tmpDstOf(path) \in DOMAIN fs
                          /\ fs'[path] = fs[tmpDstOf(path)]]_vars

\* a copy is under way: part of the bytes is under the temporary name while the
\* destination name still holds the file an earlier attempt has put there
NoPartialFileAtDestinationWitness ==
    \E w \in Workers :
        LET dst == dstPathOf(wpath[w])
        IN  /\ wpc[w] = "mv_copying"
            /\ tmpDstOf(dst) \in DOMAIN fs
            /\ fs[tmpDstOf(dst)] \in Partials
            /\ dst \in DOMAIN fs
            /\ fs[dst] \notin Partials

CopyPcs == {"mv_copy", "mv_copying", "mv_rename_tmp"}

\* C13: on the copy path MoveFile removes the source only after the temporary
\* file has been completed and renamed onto the destination; when the copy
\* step fails the temporary file is gone, the source is as it was and the
\* error is returned (the transaction is rolled back).
FallbackOrdering ==
    [][\A w \in Workers :
          LET src == wpath[w]
              dst == dstPathOf(src)
          IN  /\ (wpc[w] \in CopyPcs /\ src \in DOMAIN fs /\ fsOps' = fsOps)
                 => src \in DOMAIN fs' /\ fs'[src] = fs[src]
              /\ (wpc[w] = "mv_remove_src" /\ src \in DOMAIN fs /\ src \notin DOMAIN fs'
                  /\ fsOps' = fsOps)
                 => wplaced[w] /\ dst \in DOMAIN fs /\ fs[dst] \notin Partials
              /\ (wpc[w] \in {"mv_copy", "mv_copying"} /\ wpc'[w] = "fail_tx")
                 => /\ tmpDstOf(dst) \notin DOMAIN fs'
                    /\ src \in DOMAIN fs => src \in DOMAIN fs' /\ fs'[src] = fs[src]
                    /\ txrec'[w] = NoRow]_vars

\* the copy has been renamed onto the destination and the source is still there
FallbackOrderingWitness ==
    \E w \in Workers :
        LET src == wpath[w]
            dst == dstPathOf(src)
        IN  /\ wpc[w] = "mv_remove_src"
            /\ wplaced[w]
            /\ src \in DOMAIN fs
            /\ dst \in DOMAIN fs
            /\ fs[dst] = fs[src]
            /\ tmpDstOf(dst) \notin DOMAIN fs

\* C14: when MoveFile returns nil the source no longer exists and, no other
\* writer having touched the source during the call, the destination holds
\* exactly the bytes the source had; when the source does not exist or is not
\* a regular file MoveFile returns an error and changes no file.
MoveFilePostcondition ==
    [][\A w \in Workers :
          LET src == wpath[w]
              dst == dstPathOf(src)
          IN  /\ (wpc[w] \in {"mv_rename", "mv_remove_src"} /\ wpc'[w] = "commit")
                 => /\ src \notin DOMAIN fs'
                    /\ dst \in DOMAIN fs'
                    /\ w \notin touched
                       => /\ src \in DOMAIN fs
                          /\ fs[src] # Dir
                          /\ fs'[dst] = fs[src]
              /\ (Leaves(w, "mv_stat") /\ (src \notin DOMAIN fs \/ IsDir(src)))
                 => /\ wpc'[w] = "fail_tx"
                    /\ fs' = fs]_vars

\* MoveFile has returned nil: the source is gone and the destination holds the
\* bytes that were hashed
MoveFilePostconditionWitness ==
    \E w \in Workers :
        LET src == wpath[w]
            dst == dstPathOf(src)
        IN  /\ wpc[w] = "commit"
            /\ wplaced[w]
            /\ src \notin DOMAIN fs
            /\ dst \in DOMAIN fs
            /\ Sha256(fs[dst]) = whash[w]

\* C15: when the copy has been renamed onto the destination and removing the
\* source fails, processFile goes on to commit the FileRecord (the failure is
\* only a warning), so that the file is not ingested again.
SourceRemovalFailureIsWarning ==
    [][\A w \in Workers :
          (Leaves(w, "mv_remove_src") /\ wplaced[w])
          => /\ wpc'[w] = "commit"
             /\ txrec'[w] # NoRow]_vars

\* C16: every manifest line's digest has a committed FileRecord, and no two
\* manifest lines carry the same digest.
ManifestFollowsCommit ==
    /\ \A i \in 1..Len(manifest) : manifest[i].sha256 \in Digests(records)
    /\ \A i, j \in 1..Len(manifest) : i # j => manifest[i].sha256 # manifest[j].sha256

\* two files with different contents have been ingested and written to the manifest
ManifestFollowsCommitWitness ==
    /\ Len(manifest) = 2
    /\ Cardinality(records) = 2

\* C17: when the lookup finds a FileRecord for the digest of a ready file,
\* processFile returns no error, untracks the path, and creates no record, no
\* file and no manifest line.
DuplicateSkip ==
    [][\A w \in Workers :
          /\ (Leaves(w, "exists") /\ whash[w] \in Digests(records))
             => /\ wpc'[w] = "untrack_duplicate"
                /\ records' = records /\ txrec' = txrec
                /\ fs' = fs
                /\ manifest' = manifest
          /\ Leaves(w, "untrack_duplicate")
             => /\ wpc'[w] = "recv"
                /\ wpath[w] \notin Tracked'
                /\ outcome'[wpath[w]] = "duplicate"
                /\ records' = records /\ txrec' = txrec
                /\ fs' = fs
                /\ manifest' = manifest]_vars

\* a file was skipped as a duplicate: it is untracked, still in the input
\* directory, and nothing is at its destination name
DuplicateSkipWitness ==
    \E path \in DOMAIN outcome :
        /\ outcome[path] = "duplicate"
        /\ path \notin Tracked
        /\ path \in DOMAIN fs
        /\ Sha256(fs[path]) \in Digests(records)
        /\ dstPathOf(path) \notin DOMAIN fs

\* C18: a file that was skipped as a duplicate of an ingested content is
\* eventually no longer in the input directory.
DuplicateResendConsumed ==
    \A path \in {FileA, FileB} :
        (path \in DOMAIN outcome /\ outcome[path] = "duplicate" /\ path \in DOMAIN fs)
            ~> (path \notin DOMAIN fs)

\* C19: with DryRun set no step changes the FileRecords or the manifest, only
\* the external writers change files, and a ready path without a record is
\* only untracked.
DryRunFrame ==
    [][cfg.DryRun =>
          /\ records' = records
          /\ txrec' = txrec
          /\ manifest' = manifest
          /\ fsOps' = fsOps => fs' = fs
          /\ \A w \in Workers :
                 /\ (Leaves(w, "exists") /\ whash[w] \notin Digests(records))
                    => wpc'[w] = "untrack_dryrun"
                 /\ Leaves(w, "untrack_dryrun")
                    => /\ wpc'[w] = "recv"
                       /\ wpath[w] \notin Tracked'
                       /\ outcome'[wpath[w]] = "dryrun"]_vars

\* a dry run has gone over a new file: it is untracked and still in place
DryRunFrameWitness ==
    /\ cfg.DryRun
    /\ FileA \in DOMAIN outcome
    /\ outcome[FileA] = "dryrun"
    /\ FileA \in DOMAIN fs
    /\ FileA \notin Tracked
    /\ dstPathOf(FileA) \notin DOMAIN fs

\* the workers that are running in the pool
Active == {w \in Workers : wpc[w] \notin {"off", "exit"}}

\* C20: a ProcessFiles run starts min(max(Concurrency, 1), n) workers for its n
\* ready paths, no path is received twice or held by two workers, and when
\* the run returns every path of the snapshot has been received once and its
\* processFile call has ended.
WorkerPoolDispatch ==
    [][/\ (mainPc = "wait" /\ mainPc' = "run")
          => LET n == Cardinality(GetFilesToProcess)
                 atLeastOne == IF cfg.Concurrency > 1 THEN cfg.Concurrency ELSE 1
             IN  /\ Cardinality(Active') = IF atLeastOne < n THEN atLeastOne ELSE n
                 /\ DOMAIN handled' = GetFilesToProcess
                 /\ \A path \in GetFilesToProcess : handled'[path] = 0
                 /\ Len(fileChan') = n
                 /\ {fileChan'[i] : i \in 1..n} = GetFilesToProcess
       /\ \A w \in Workers :
              (wpc[w] = "recv" /\ wpc'[w] = "stat")
              => /\ handled[wpath'[w]] = 0
                 /\ handled'[wpath'[w]] = 1
                 /\ \A o \in Active \ {w} : wpc[o] # "recv" => wpath[o] # wpath'[w]
       /\ (mainPc = "run" /\ mainPc' = "wait")
          => \A path \in DOMAIN handled : handled[path] = 1 /\ path \in DOMAIN outcome]_vars

\* a width above the number of paths: each of the two ready paths is with its
\* own worker, both inside processFile
WorkerPoolDispatchWitness ==
    /\ mainPc = "run"
    /\ cfg.Concurrency > Cardinality(DOMAIN handled)
    /\ Cardinality(DOMAIN handled) = 2
    /\ \A path \in DOMAIN handled : handled[path] = 1
    /\ Cardinality({w \in Active : wpc[w] # "recv"}) = 2
    /\ \A w1, w2 \in Active : w1 # w2 => wpath[w1] # wpath[w2]

\* C21: the detector's queries and the event loop never block each other: a
\* pending event can be consumed whatever the tick and the workers are doing,
\* a worker's RemoveFromTracking and the tick's GetFilesToProcess can run
\* whatever the event loop is doing, and so a pending event is eventually
\* consumed and an untracking worker eventually gets on.
NonBlockingDetector ==
    /\ []((Running /\ events # << >>) => ENABLED HandleEvent)
    /\ [](\A w \in Workers : wpc[w] \in UntrackPcs => ENABLED Untrack(w))
    /\ [](mainPc = "wait" => ENABLED ProcessFiles)
    /\ (events # << >>) ~> (events = << >>)
    /\ \A w \in Workers : (wpc[w] \in UntrackPcs) ~> (wpc[w] \notin UntrackPcs)

\* an event is pending while a worker is about to untrack a path
NonBlockingDetectorWitness ==
    /\ events # << >>
    /\ mainPc = "run"
    /\ \E w \in Workers : wpc[w] \in UntrackPcs

\* the paths the watcher can be asked about
KnownPaths == env.paths \cup {TrimSuffix(path, DotOk) : path \in env.paths}

\* C22: RemoveFromTracking(p) makes p absent from the ready set, applying it
\* twice equals applying it once, applying it to an absent path changes
\* nothing, and no other path's tracking state changes.
UntrackIdempotentLocal ==
    \A p \in KnownPaths :
        LET m1 == RemoveFromTrackingOf(modification, p)
            c1 == RemoveFromTrackingOf(completed, p)
            ready1 == GetFilesToProcessOf(m1, c1, cfg.StabilitySeconds, now)
        IN  /\ p \notin ready1
            /\ p \notin (DOMAIN m1.m) \cup (DOMAIN c1.m)
            /\ RemoveFromTrackingOf(m1, p) = m1
            /\ RemoveFromTrackingOf(c1, p) = c1
            /\ p \notin Tracked => m1 = modification /\ c1 = completed
            /\ \A q \in KnownPaths \ {p} :
                   /\ q \in DOMAIN m1.m <=> q \in DOMAIN modification.m
                   /\ q \in DOMAIN m1.m => m1.m[q] = modification.m[q]
                   /\ q \in DOMAIN c1.m <=> q \in DOMAIN completed.m
                   /\ q \in DOMAIN c1.m => c1.m[q] = completed.m[q]
                   /\ q \in ready1 <=> q \in GetFilesToProcess

\* the processor has untracked one path while another one is ready
UntrackIdempotentLocalWitness ==
    \E p \in DOMAIN outcome, q \in GetFilesToProcess :
        /\ p # q
        /\ p \notin Tracked
        /\ q \in Tracked

\* worker w has lost the race for its digest against the other worker, which
\* took the other path with the same content in the same run
LostRace(w) ==
    /\ wpc[w] = "fail_tx"
    /\ txrec[w] = NoRow
    /\ ~wplaced[w]
    /\ \E o \in Workers \ {w} :
           /\ wpc[o] \in {"manifest", "untrack_ok"}
           /\ wpath[o] # wpath[w]
           /\ whash[o] = whash[w]
           /\ Row(whash[o], Base(wpath[o]), wpath[o]) \in records

\* C23: when two workers handle two paths with the same content in one run,
\* one transaction commits and one file is relocated; the loser's insert
\* fails without changing a file or a record, its path stays tracked, and a
\* later run untracks it as a duplicate (unless the file is removed or
\* written again, or the process dies, before that).
LostRaceAndRetry ==
    /\ [][\A w \in Workers :
             /\ (Leaves(w, "create") /\ whash[w] \in Digests(records))
                => /\ wpc'[w] = "fail_tx"
                   /\ fs' = fs
                   /\ records' = records
             /\ Leaves(w, "fail_tx")
                => /\ fs' = fs
                   /\ records' = records
                   /\ modification' = modification
                   /\ completed' = completed]_vars
    /\ [](\A w \in Workers :
              (LostRace(w) /\ restarts = 0)
              => /\ wpath[w] \in Tracked
                 /\ Cardinality({r \in records : r.sha256 = whash[w]}) = 1
                 /\ Cardinality({q \in Relocated : Sha256(fs[q]) = whash[w]}) = 1)
    /\ \A path \in {FileA, FileB} :
           (\E w \in Workers : LostRace(w) /\ wpath[w] = path)
               ~> \/ path \in DOMAIN outcome /\ outcome[path] = "duplicate"
                  \/ path \notin DOMAIN fs
                  \/ path \in Tracked /\ path \notin GetFilesToProcess
                  \/ mainPc = "down"
                  \/ restarts > 0

\* the loser of the race: its file is in the input directory and still ready
LostRaceAndRetryWitness ==
    \E w \in Workers :
        /\ LostRace(w)
        /\ restarts = 0
        /\ wpath[w] \in DOMAIN fs
        /\ wpath[w] \in GetFilesToProcess
        /\ dstPathOf(wpath[w]) \notin DOMAIN fs

\* no record, no file and no manifest line changes in the step
NothingElseChanges ==
    /\ records' = records
    /\ txrec' = txrec
    /\ fs' = fs
    /\ manifest' = manifest
    /\ mfiles' = mfiles

\* C24: when the stat or the hashing of a ready path fails, processFile
\* untracks the path and returns an error, changing no record, no file and no
\* manifest line; the path is tracked again only by a new file-system event.
StatHashFailure ==
    [][/\ \A w \in Workers :
              /\ (Leaves(w, "stat") /\ wpath[w] \notin DOMAIN fs)
                 => wpc'[w] = "untrack_error" /\ NothingElseChanges
              /\ (Leaves(w, "hash") /\ (wpath[w] \notin DOMAIN fs \/ IsDir(wpath[w])))
                 => wpc'[w] = "untrack_error" /\ NothingElseChanges
              /\ Leaves(w, "untrack_error")
                 => /\ wpc'[w] = "recv"
                    /\ wpath[w] \notin Tracked'
                    /\ wpath[w] \notin GetFilesToProcess'
                    /\ outcome'[wpath[w]] = "error"
                    /\ NothingElseChanges
       /\ \A path \in KnownPaths :
              (path \in DOMAIN outcome /\ outcome[path] = "error"
               /\ path \notin Tracked /\ path \in Tracked')
              => events # << >> /\ events' = Tail(events)]_vars

\* the file had vanished when the worker came to it: the path is untracked and
\* nothing was recorded
StatHashFailureWitness ==
    /\ FileA \in DOMAIN outcome
    /\ outcome[FileA] = "error"
    /\ FileA \notin Tracked
    /\ FileA \notin DOMAIN fs
    /\ records = {}
    /\ manifest = << >>

\* C25: whether or not the manifest append fails, processFile goes on to
\* untrack the path and return success; the FileRecord stays committed and
\* the file stays at the destination.
ManifestFailureNonFatal ==
    [][\A w \in Workers :
          /\ Leaves(w, "manifest")
             => /\ wpc'[w] = "untrack_ok"
                /\ Row(whash[w], Base(wpath[w]), wpath[w]) \in records'
                /\ records' = records
                /\ fs' = fs
          /\ Leaves(w, "untrack_ok")
             => /\ wpc'[w] = "recv"
                /\ wpath[w] \notin Tracked'
                /\ outcome'[wpath[w]] = "moved"
                /\ records' = records
                /\ fs' = fs]_vars

\* a file was ingested with success although its manifest line is missing
ManifestFailureNonFatalWitness ==
    \E path \in DOMAIN outcome :
        /\ outcome[path] = "moved"
        /\ path \notin Tracked
        /\ dstPathOf(path) \in DOMAIN fs
        /\ \E r \in records : r.path = path
        /\ \A i \in 1..Len(manifest) : manifest[i].source_path # path

\* C26: while the process runs, a Ready path never becomes Discovered (tracked
\* and not ready) again, a path is untracked only while it is Ready, and an
\* untracked path becomes tracked only when an event is consumed.
PathStateMachine ==
    [][(mainPc # "down" /\ mainPc' # "down") =>
          \A path \in Tracked \cup Tracked' :
              /\ path \in GetFilesToProcess
                 => ~(path \in Tracked' /\ path \notin GetFilesToProcess')
              /\ (path \in Tracked /\ path \notin Tracked')
                 => path \in GetFilesToProcess
              /\ (path \notin Tracked /\ path \in Tracked')
                 => events # << >> /\ events' = Tail(events)]_vars

\* C27: ProcessFiles starts a run only for a non-empty ready set, returns only
\* after every path of the snapshot has been received and every worker has
\* left its loop, and every run returns, whatever the width and the number
\* of paths.
ProcessFilesTerminates ==
    /\ [][/\ (mainPc = "wait" /\ mainPc' = "run") => GetFilesToProcess # {}
          /\ (mainPc = "run" /\ mainPc' = "wait")
             => /\ fileChan = << >>
                /\ \A path \in DOMAIN handled : handled[path] = 1
                /\ \A w \in Workers : wpc[w] \in {"off", "exit"}]_vars
    /\ (mainPc = "run") ~> (mainPc # "run")

\* a run with a width below one has returned after handling two paths
ProcessFilesTerminatesWitness ==
    /\ cfg.Concurrency < 1
    /\ mainPc = "wait"
    /\ handled = EmptyMap
    /\ Cardinality(DOMAIN outcome) = 2

\* C28: no step deletes or modifies a committed FileRecord: the set of rows
\* only grows.
RecordsMonotonic ==
    [][records \subseteq records']_vars

\* the store has grown to two rows, over a crash and a restart
RecordsMonotonicWitness ==
    /\ restarts > 0
    /\ mainPc = "wait"
    /\ Cardinality(records) = 2

\* positions of a worker inside the function passed to Transaction
TxPcs == {"create", "mkdir", "mv_stat"} \cup MovePcs

\* C29: when the function passed to Transaction returns an error the committed
\* rows are those before the call (the row inserted inside is not visible,
\* the others remain); when it returns nil the inserted row is committed and
\* FileExists finds it; a row of an open transaction is not among the
\* committed ones.
TransactionRollback ==
    [][\A w \in Workers :
          /\ (wpc[w] \in TxPcs /\ wpc'[w] = "fail_tx")
             => /\ records' = records
                /\ txrec'[w] = NoRow
                /\ txrec[w] # NoRow => ~FileExists(records', txrec[w].sha256)
          /\ Leaves(w, "commit")
             => /\ txrec[w] # NoRow
                /\ records' = records \cup {txrec[w]}
                /\ FileExists(records', whash[w])
          /\ txrec'[w] # NoRow => txrec'[w] \notin records']_vars

\* a transaction has failed on a store that held a row before: that row is
\* still there and the digest of the failed one is not
TransactionRollbackWitness ==
    \E w \in Workers :
        /\ wpc[w] = "fail_tx"
        /\ whash[w] # NoHash
        /\ records # {}
        /\ ~FileExists(records, whash[w])

\* C30: MoveFile goes on to the copy only when the rename of an existing source
\* is rejected because the two names are on different file systems; after
\* any other rename failure it returns the error and changes no file.
FallbackTrigger ==
    [][\A w \in Workers :
          (Leaves(w, "mv_rename") /\ wpc'[w] # "commit")
          => IF wpath[w] \in DOMAIN fs /\ Fault("rename")
             THEN wpc'[w] = "mv_copy"
             ELSE wpc'[w] = "fail_tx" /\ fs' = fs]_vars

\* the complete lines of a manifest file: a piece that is a whole line, or the
\* first part of a line followed at once by the last part of the same line
CompleteLines(f) ==
    {i \in 1..Len(f) :
        \/ f[i].part = "line"
        \/ /\ f[i].part = "head"
           /\ i < Len(f)
           /\ f[i + 1].part = "tail"
           /\ f[i + 1].entry = f[i].entry}

\* every piece of the file belongs to a complete line
WholeLines(f) ==
    \A i \in 1..Len(f) :
        \/ i \in CompleteLines(f)
        \/ f[i].part = "tail" /\ i > 1 /\ (i - 1) \in CompleteLines(f)

\* no worker is inside a call of Append, and the process has never died
NoAppendUnderWay ==
    /\ restarts = 0
    /\ Running
    /\ \A w \in Workers : wpc[w] # "manifest_rest"

\* C31: appends by concurrent workers are atomic per call: once the calls
\* have returned, every manifest file consists of complete lines only (none
\* interleaved with another, none truncated), there is exactly one complete
\* line per call that succeeded, and a step only adds to the end of a file.
AtomicAppends ==
    /\ [](NoAppendUnderWay =>
            /\ \A path \in DOMAIN mfiles : WholeLines(mfiles[path])
            /\ \A w \in Workers :
                   LET e == manifestEntry(w)
                   IN  Cardinality({i \in 1..Len(manifest) : manifest[i] = e})
                       = Cardinality({x \in {<<path, i>> : path \in DOMAIN mfiles,
                                                          i \in 1..(MaxWorkers * 2)} :
                                         /\ x[2] \in CompleteLines(mfiles[x[1]])
                                         /\ mfiles[x[1]][x[2]].entry = e}))
    /\ [][\A path \in DOMAIN mfiles :
              /\ path \in DOMAIN mfiles'
              /\ Len(mfiles[path]) <= Len(mfiles'[path])
              /\ SubSeq(mfiles'[path], 1, Len(mfiles[path])) = mfiles[path]]_vars

\* two times agree on year, month, day and hour
SameHour(t1, t2) ==
    /\ t1.year = t2.year
    /\ t1.month = t2.month
    /\ t1.day = t2.day
    /\ t1.hour = t2.hour

\* times that differ in one field or in several, and the times of the clock
Instants ==
    {Time(year, month, day, hour, 30, 0) :
        year \in {2024, 2025}, month \in {1, 11}, day \in {1, 11}, hour \in {1, 11}}
    \cup {AddSeconds(start, n) : start \in Starts, n \in 0..MaxTime}

\* path is basePath/YYYY/MM/DD/HH/manifest.jsonl for the fields of t
IsPartitionPath(path, basePath, t) ==
    LET n == Len(basePath)
    IN  /\ Len(path) = n + 15 + Len(ManifestName)
        /\ SubSeq(path, 1, n) = basePath
        /\ \A i \in {n + 1, n + 6, n + 9, n + 12, n + 15} : path[i] = "/"
        /\ SubSeq(path, n + 2, n + 5) = Format2006(t)
        /\ SubSeq(path, n + 7, n + 8) = Format01(t)
        /\ SubSeq(path, n + 10, n + 11) = Format02(t)
        /\ SubSeq(path, n + 13, n + 14) = Format15(t)
        /\ SubSeq(path, n + 16, Len(path)) = ManifestName

\* the pieces written so far, each with the file it is in
Written == {<<path, i>> : path \in DOMAIN mfiles, i \in 1..(MaxWorkers * 2)}

\* C32: an entry is written to basePath/YYYY/MM/DD/HH/manifest.jsonl of its
\* ProcessedAt, with zero-padded fields; two entries are in the same file
\* exactly when their ProcessedAt agree on year, month, day and hour; and a
\* step changes at most the one file of the entry being appended.
ManifestPartitioning ==
    /\ \A t1, t2 \in Instants :
           /\ IsPartitionPath(getManifestPath(ManifestsDir, t1), ManifestsDir, t1)
           /\ (getManifestPath(ManifestsDir, t1) = getManifestPath(ManifestsDir, t2))
              <=> SameHour(t1, t2)
    /\ [](\A x, y \in Written :
             (x[2] <= Len(mfiles[x[1]]) /\ y[2] <= Len(mfiles[y[1]])) =>
                 /\ IsPartitionPath(x[1], ManifestsDir, mfiles[x[1]][x[2]].processed_at)
                 /\ (x[1] = y[1]) <=> SameHour(mfiles[x[1]][x[2]].processed_at,
                                               mfiles[y[1]][y[2]].processed_at))
    /\ [][mfiles' # mfiles =>
             \E w \in Workers :
                 LET manifestPath == getManifestPath(ManifestsDir, wprocessedAt[w])
                 IN  /\ wpc[w] \in {"manifest", "manifest_rest"}
                     /\ wpc'[w] # wpc[w]
                     /\ manifestPath \in DOMAIN mfiles'
                     /\ mfiles'[manifestPath][Len(mfiles'[manifestPath])].processed_at
                        = wprocessedAt[w]
                     /\ \A path \in (DOMAIN mfiles \cup DOMAIN mfiles') \ {manifestPath} :
                            /\ path \in DOMAIN mfiles
                            /\ path \in DOMAIN mfiles'
                            /\ mfiles'[path] = mfiles[path]]_vars

\* two entries processed in different hours are in two files
ManifestPartitioningWitness ==
    /\ Cardinality(DOMAIN mfiles) = 2
    /\ Len(manifest) = 2
    /\ \A path \in DOMAIN mfiles : Len(mfiles[path]) = 1

\* C33: the process ends only between two ProcessFiles runs: a shutdown that
\* arrives during a run does not interrupt its workers, and the watcher and
\* the store are released only after the run has returned.
GracefulShutdown ==
    [][(Running /\ ~Running') =>
          /\ mainPc = "wait"
          /\ \A w \in Workers : wpc[w] = "off" /\ txrec[w] = NoRow]_vars

\* C34: a create or write recorded for a path after the snapshot that holds it
\* is not lost when the worker finishes with the path.  In the
\* stability-window mode a path of the snapshot that is tracked and no longer
\* ready has had such an event recorded since the snapshot; it must still be
\* tracked after the worker's RemoveFromTracking.
EventsDuringProcessingKept ==
    [][\A w \in Workers :
          (/\ wpc[w] \in UntrackPcs
           /\ wpc'[w] = "recv"
           /\ Running'
           /\ cfg.Method = MethodStabilityWindow
           /\ wpath[w] \in Tracked
           /\ wpath[w] \notin GetFilesToProcess)
          => wpath[w] \in Tracked']_vars

\* C35: once a destination path holds the content of a committed FileRecord,
\* no step replaces or removes the content at that path.
NeverOverwritten ==
    [][\A r \in records :
          LET dst == dstPathOf(r.path)
          IN  (dst \in DOMAIN fs /\ Sha256(fs[dst]) = r.sha256)
              => (dst \in DOMAIN fs' /\ fs'[dst] = fs[dst])]_vars

\* C36: when MoveFile has returned nil, the digest the worker has computed,
\* which goes into the FileRecord and the manifest entry, is the digest of
\* the bytes at the destination path.
DigestMatchesContent ==
    \A w \in Workers :
        wpc[w] = "commit" =>
            /\ txrec[w].sha256 = whash[w]
            /\ dstPathOf(wpath[w]) \in DOMAIN fs
            /\ Sha256(fs[dstPathOf(wpath[w])]) = whash[w]

\* the workers inside processFile
Processing == {w \in Workers : wpc[w] \notin {"off", "exit", "recv"}}

\* C37: a run starts only when no run is under way, a snapshot holds no path
\* twice, and no two workers are inside processFile for the same path.
SingleHandler ==
    /\ [](/\ \A w1, w2 \in Processing : w1 # w2 => wpath[w1] # wpath[w2]
          /\ \A i, j \in 1..Len(fileChan) : i # j => fileChan[i] # fileChan[j]
          /\ \A i \in 1..Len(fileChan), w \in Processing : fileChan[i] # wpath[w]
          /\ mainPc = "wait" => (Processing = {} /\ fileChan = << >>))
    /\ [][(mainPc # "run" /\ mainPc' = "run") =>
             /\ mainPc = "wait"
             /\ \A w \in Workers : wpc[w] = "off"
             /\ \A i, j \in 1..Len(fileChan') : i # j => fileChan'[i] # fileChan'[j]]_vars

\* two workers are inside processFile at once, each for its own path
SingleHandlerWitness ==
    /\ Cardinality(Processing) = 2
    /\ \A w \in Workers : wpc[w] \in {"create", "mkdir", "mv_stat", "commit", "manifest"}

\* C38: with the goroutines, the ticker and the clock scheduled fairly, a
\* ready path does not stay ready for ever: it is untracked, unless a new
\* event for it restarts its window first.
ReadyResolved ==
    \A path \in {FileA, FileB} :
        (path \in GetFilesToProcess) ~> (path \notin GetFilesToProcess)

\* a ready path has been handled and untracked
ReadyResolvedWitness ==
    \E path \in {FileA, FileB} :
        /\ path \in DOMAIN outcome
        /\ outcome[path] \in {"moved", "duplicate", "error"}
        /\ path \notin Tracked
        /\ restarts = 0

\* C39: a failed FileExists makes processFile return an error without
\* untracking: the step and the return change no record, no file, no
\* manifest line and no tracking state, so a ready path is ready for the next
\* tick; and the lookup leads to an untrack only with the store's answer.
LookupFailureKeepsPath ==
    [][\A w \in Workers :
          /\ (Leaves(w, "exists") /\ wpc'[w] \in UntrackPcs)
             => wpc'[w] = (IF FileExists(records, whash[w]) THEN "untrack_duplicate"
                           ELSE "untrack_dryrun")
          /\ ((Leaves(w, "exists") /\ wpc'[w] = "fail_lookup") \/ Leaves(w, "fail_lookup"))
             => /\ NothingElseChanges
                /\ mfiles' = mfiles
                /\ modification' = modification
                /\ completed' = completed
                /\ wpath[w] \in GetFilesToProcess => wpath[w] \in GetFilesToProcess'
          /\ Leaves(w, "fail_lookup")
             => (wpc'[w] = "recv" /\ outcome'[wpath[w]] = "failed")]_vars

\* the lookup of a ready path has failed
LookupFailureKeepsPathWitness ==
    \E w \in Workers :
        /\ wpc[w] = "fail_lookup"
        /\ wpath[w] \in GetFilesToProcess
        /\ wpath[w] \in DOMAIN fs
        /\ records = {}

====
